---- MODULE Spec2Model ----
(***************************************************************************)
(* Model of packages/tracing/src/integrations/express.ts: the Express      *)
(* tracing integration.  setupOnce patches the registration methods of an  *)
(* application object; a patched method wraps every handler it is given;   *)
(* a wrapped handler, when the framework invokes it, writes request data   *)
(* onto the transaction attached to the response, opens a child span and   *)
(* finishes it on the handler's completion signal.                         *)
(*                                                                         *)
(* JavaScript values are records tagged by a field "kind".  Functions are  *)
(* records that carry their declared parameter count ("length") and their  *)
(* name; a closure also carries the values it captured.  Spans and         *)
(* transactions are objects of the tracing API and are referred to by      *)
(* their position in the object tables `spans` and `transactions`.         *)
(***************************************************************************)
EXTENDS Integers, Sequences, FiniteSets, TLC

VARIABLES
    app,          \* the application object: registration method name -> function
    integration,  \* the Express integration instance: _app, _methods
    setups,       \* number of setupOnce calls made so far
    handlers,     \* the functions the framework's own registration methods received
    regs,         \* number of calls of registration methods made so far
    lastCall,     \* the most recent call of a registration method and its outcome
    requests,     \* the request objects, in order of arrival
    res,          \* the response objects: attached transaction, 'finish' listeners
    transactions, \* the transaction objects: name and data
    spans,        \* the span objects, in order of creation
    invs,         \* the invocations of registered handlers by the framework
    running,      \* the invocation whose handler is on the stack, or 0
    log           \* per request: the calls made on its behalf, in order

vars == <<app, integration, setups, handlers, regs, lastCall, requests, res,
          transactions, spans, invs, running, log>>

-----------------------------------------------------------------------------
(* Bounds of the model *)

\* calls and events in one behaviour: setupOnce calls, registration calls,
\* handler invocations, handler returns, continuation calls, 'finish' events
MaxSteps == 6

\* setupOnce calls, and calls of registration methods, in one behaviour
MaxSetup == 2

MaxRegistrations == 2

-----------------------------------------------------------------------------
(* Values *)

\* the value of an absent property or variable
Undefined == [kind |-> "undefined"]

\* a reference to no object of the tracing API (res.__sentry_transaction unset,
\* `transaction && transaction.startChild(...)` with no transaction)
NoObject == 0

\* type Method, and the keys of Application
Method == {"all", "get", "post", "put", "delete", "patch", "options", "head",
           "checkout", "copy", "lock", "merge", "mkactivity", "mkcol", "move",
           "m-search", "notify", "purge", "report", "search", "subscribe",
           "trace", "unlock", "unsubscribe"}

AppMethods == Method \cup {"use"}

\* a function written by the user of the framework
UserFn(name, length) ==
    [kind |-> "function", name |-> name, length |-> length, fn |-> Undefined]

Str(s) == [kind |-> "string", value |-> s]

Arr(elems) == [kind |-> "array", elems |-> elems]

\* typeof v === 'function'
IsFunction(v) == v.kind = "function"

\* Array.isArray(v)
IsArray(v) == v.kind = "array"

\* a thrown Error
IsThrown(v) == v.kind = "Error"

-----------------------------------------------------------------------------
(* wrap, wrapUseArgs, patchMiddleware *)

\* new Error(`Express middleware takes 2-4 arguments. Got: ${arity}`)
ArityError(arity) == [kind |-> "Error", got |-> arity]

\* the function wrap returns: the closure over fn of the case chosen by
\* fn.length.  The closure is anonymous and declares as many parameters
\* as the case it was taken from.
Wrapper(fn, arity) ==
    [kind |-> "function", name |-> "", length |-> arity, fn |-> fn]

\* wrap without the default case: a function of another arity is returned
\* as it is
wrap_Lenient(fn) ==
    LET arity == fn.length IN
    IF arity \in {2, 3, 4} THEN Wrapper(fn, arity) ELSE fn

wrap(fn) ==
    LET arity == fn.length IN
    IF arity \in {2, 3, 4} THEN Wrapper(fn, arity) ELSE ArityError(arity)

\* Array.prototype.map with a callback that may throw: the new array, or
\* the first exception in index order, which ends the map
MapOrThrow(out) ==
    IF \E i \in 1..Len(out) : IsThrown(out[i])
    THEN out[CHOOSE i \in 1..Len(out) :
                 IsThrown(out[i]) /\ \A j \in 1..(i - 1) : ~IsThrown(out[j])]
    ELSE Arr(out)

\* the callback of the inner arg.map of wrapUseArgs
wrapArrayElem(a) == IF IsFunction(a) THEN wrap(a) ELSE a

\* the callback of the outer map without the Array.isArray branch
wrapUseArg_NoArrays(arg) == IF IsFunction(arg) THEN wrap(arg) ELSE arg

\* the callback of the outer map of wrapUseArgs
wrapUseArg(arg) ==
    IF IsFunction(arg) THEN wrap(arg)
    ELSE IF IsArray(arg)
         THEN MapOrThrow([i \in 1..Len(arg.elems) |-> wrapArrayElem(arg.elems[i])])
         ELSE arg

\* the array wrapUseArgs returns, or the exception it throws
wrapUseArgs(args) ==
    MapOrThrow([i \in 1..Len(args) |-> wrapUseArg(args[i])])

\* the registration method the framework itself installed under `method`
OriginalMethod(method) == [kind |-> "original", method |-> method]

\* the function patchMiddleware installs: the closure over originalAppCallback
PatchedMethod(originalAppCallback) ==
    [kind |-> "patched", originalAppCallback |-> originalAppCallback]

\* patchMiddleware that leaves a method it has patched before as it is
patchMiddleware_Once(a, method) ==
    IF a[method].kind = "patched" THEN a
    ELSE [a EXCEPT ![method] = PatchedMethod(a[method])]

patchMiddleware(a, method) ==
    [a EXCEPT ![method] = PatchedMethod(a[method])]

instrumentMiddlewares(a) == patchMiddleware(a, "use")

\* routeMiddlewares that stops after the first of the methods
routeMiddlewares_FirstOnly(a, methods) ==
    IF methods = <<>> THEN a ELSE [a EXCEPT ![Head(methods)] = PatchedMethod(@)]

RECURSIVE routeMiddlewares(_, _)
routeMiddlewares(a, methods) ==
    IF methods = <<>> THEN a
    ELSE routeMiddlewares(patchMiddleware(a, Head(methods)), Tail(methods))

\* what a call f.apply(this, args) of a registration method does: the calls
\* that reach the framework's own method, or the exception thrown
RECURSIVE CallMethod(_, _, _)
CallMethod(f, this, args) ==
    IF f.kind = "original"
    THEN [threw |-> FALSE, error |-> Undefined,
          forwarded |-> <<[method |-> f.method, this |-> this, args |-> args]>>]
    ELSE LET w == wrapUseArgs(args) IN
         IF IsThrown(w)
         THEN [threw |-> TRUE, error |-> w, forwarded |-> <<>>]
         ELSE CallMethod(f.originalAppCallback, this, w.elems)

\* number of patchMiddleware layers on a registration method
RECURSIVE Layers(_)
Layers(f) == IF f.kind = "original" THEN 0 ELSE 1 + Layers(f.originalAppCallback)

-----------------------------------------------------------------------------
(* The tracing API and the response object, as the integration uses them.  *)
(* The objects live in a record st = [requests, res, transactions, spans,  *)
(* log]; an operation returns the record after the call.  r is the request *)
(* on whose behalf the call is made; it only selects the log the call is   *)
(* noted in.                                                               *)

Note(st, r, event) == [st EXCEPT !.log[r] = Append(@, event)]

\* transaction.name = value
setName(st, r, transaction, value) ==
    Note([st EXCEPT !.transactions[transaction].name = value],
         r, [op |-> "name", transaction |-> transaction, value |-> value])

\* transaction.setData(key, value)
setData(st, r, transaction, key, value) ==
    Note([st EXCEPT !.transactions[transaction].data = (key :> value) @@ @],
         r, [op |-> "setData", transaction |-> transaction, key |-> key,
             value |-> value])

\* transaction.startChild({description, op}): the new span is the last of st.spans
startChild(st, r, transaction, description, op) ==
    Note([st EXCEPT !.spans = Append(@, [transaction |-> transaction,
                                         description |-> description,
                                         op |-> op, finished |-> 0])],
         r, [op |-> "startChild", transaction |-> transaction,
             span |-> Len(st.spans) + 1])

\* span.finish()
finish(st, r, span) ==
    Note([st EXCEPT !.spans[span].finished = @ + 1],
         r, [op |-> "finish", span |-> span])

\* res.once(name, callback)
once(st, r, response, name, callback) ==
    Note([st EXCEPT !.res[response].listeners =
                        Append(@, [name |-> name, callback |-> callback])],
         r, [op |-> "once", name |-> name])

\* the framework's own continuation for request r
HostNext(r) == [kind |-> "function", name |-> "next", req |-> r]

IsHostNext(n) == n.name = "next"

Req(r) == [kind |-> "request", id |-> r]

Res(r) == [kind |-> "response", id |-> r]

-----------------------------------------------------------------------------
(* addExpressReqToTransaction and the closures wrap returns *)

\* req.route && req.route.path
HasRoutePath(req) == req.route # Undefined /\ req.route.path # ""

\* addExpressReqToTransaction with the setData calls inside the route check
addExpressReqToTransaction_RouteOnly(st, r, transaction, req) ==
    IF transaction # NoObject /\ HasRoutePath(req)
    THEN LET st1 == setName(st, r, transaction,
                            req.method \o " " \o req.route.path)
             st2 == setData(st1, r, transaction, "url", req.originalUrl)
             st3 == setData(st2, r, transaction, "baseUrl", req.baseUrl)
         IN  setData(st3, r, transaction, "query", req.query)
    ELSE st

addExpressReqToTransaction(st, r, transaction, req) ==
    IF transaction # NoObject
    THEN LET st1 == IF HasRoutePath(req)
                    THEN setName(st, r, transaction,
                                 req.method \o " " \o req.route.path)
                    ELSE st
             st2 == setData(st1, r, transaction, "url", req.originalUrl)
             st3 == setData(st2, r, transaction, "baseUrl", req.baseUrl)
         IN  setData(st3, r, transaction, "query", req.query)
    ELSE st

\* () => { span.finish(); }
FinishListener(span) == [kind |-> "function", name |-> "", span |-> span]

\* function() { if (span) { span.finish(); } return next.apply(this, arguments); }
WrappedNext(span, next) ==
    [kind |-> "function", name |-> "", span |-> span, next |-> next]

RECURSIVE CallNext(_, _, _, _)

\* the continuation with next.apply before span.finish
WrappedNextBody_ForwardFirst(st, r, n, nargs) ==
    LET st1 == CallNext(st, r, n.next, nargs)
    IN  IF n.span # NoObject THEN finish(st1, r, n.span) ELSE st1

\* the continuation with the span kept in one variable shared by all
\* closures, set by the first of them
WrappedNextBody_SharedSpan(st, r, n, nargs) ==
    LET st1 == IF n.span # NoObject THEN finish(st, r, 1) ELSE st
    IN  CallNext(st1, r, n.next, nargs)

\* the body of the continuation the arity-3 and arity-4 closures hand on
WrappedNextBody(st, r, n, nargs) ==
    LET st1 == IF n.span # NoObject THEN finish(st, r, n.span) ELSE st
    IN  CallNext(st1, r, n.next, nargs)

\* a call n(...nargs) of a continuation
CallNext(st, r, n, nargs) ==
    IF IsHostNext(n)
    THEN Note(st, r, [op |-> "next", args |-> nargs])
    ELSE WrappedNextBody(st, r, n, nargs)

RECURSIVE Call(_, _, _, _)

\* case 2 with the span finished when fn returns instead of on 'finish'
Wrapped2_FinishOnReturn(st, r, fn, args) ==
    LET req == args[1]
        response == args[2]
        transaction == st.res[response.id].__sentry_transaction
        st1 == addExpressReqToTransaction(st, r, transaction, st.requests[req.id])
        st2 == IF transaction # NoObject
               THEN startChild(st1, r, transaction, fn.name, "middleware")
               ELSE st1
        st3 == Call(st2, r, fn, args)
    IN  IF transaction # NoObject THEN finish(st3, r, Len(st2.spans)) ELSE st3

\* case 2 of wrap: function(req, res) { ... return fn.apply(this, arguments); }
Wrapped2(st, r, fn, args) ==
    LET req == args[1]
        response == args[2]
        transaction == st.res[response.id].__sentry_transaction
        st1 == addExpressReqToTransaction(st, r, transaction, st.requests[req.id])
        st2 == IF transaction # NoObject
               THEN LET s == startChild(st1, r, transaction, fn.name, "middleware")
                    IN  once(s, r, response.id, "finish",
                             FinishListener(Len(s.spans)))
               ELSE st1
    IN  Call(st2, r, fn, args)

\* case 3 that returns early when there is no transaction
Wrapped3_ReturnsUntraced(st, r, fn, args) ==
    LET req == args[1]
        response == args[2]
        next == args[3]
        transaction == st.res[response.id].__sentry_transaction
        st1 == addExpressReqToTransaction(st, r, transaction, st.requests[req.id])
    IN  IF transaction = NoObject THEN st1
        ELSE LET st2 == startChild(st1, r, transaction, fn.name, "middleware")
             IN  Call(st2, r, fn,
                      <<req, response, WrappedNext(Len(st2.spans), next)>>)

\* case 3 that also finishes its span on the response's 'finish' event
Wrapped3_AlsoOnFinish(st, r, fn, args) ==
    LET req == args[1]
        response == args[2]
        next == args[3]
        transaction == st.res[response.id].__sentry_transaction
        st1 == addExpressReqToTransaction(st, r, transaction, st.requests[req.id])
        st2 == IF transaction # NoObject
               THEN LET s == startChild(st1, r, transaction, fn.name, "middleware")
                    IN  once(s, r, response.id, "finish",
                             FinishListener(Len(s.spans)))
               ELSE st1
        span == IF transaction # NoObject THEN Len(st2.spans) ELSE NoObject
    IN  Call(st2, r, fn, <<req, response, WrappedNext(span, next)>>)

\* case 3 of wrap: function(req, res, next) { ... fn.call(this, req, res, <continuation>); }
Wrapped3(st, r, fn, args) ==
    LET req == args[1]
        response == args[2]
        next == args[3]
        transaction == st.res[response.id].__sentry_transaction
        st1 == addExpressReqToTransaction(st, r, transaction, st.requests[req.id])
        st2 == IF transaction # NoObject
               THEN startChild(st1, r, transaction, fn.name, "middleware")
               ELSE st1
        span == IF transaction # NoObject THEN Len(st2.spans) ELSE NoObject
    IN  Call(st2, r, fn, <<req, response, WrappedNext(span, next)>>)

\* case 4 of wrap: function(err, req, res, next) { ... fn.call(this, err, req, res, <continuation>); }
Wrapped4(st, r, fn, args) ==
    LET err == args[1]
        req == args[2]
        response == args[3]
        next == args[4]
        transaction == st.res[response.id].__sentry_transaction
        st1 == addExpressReqToTransaction(st, r, transaction, st.requests[req.id])
        st2 == IF transaction # NoObject
               THEN startChild(st1, r, transaction, fn.name, "middleware")
               ELSE st1
        span == IF transaction # NoObject THEN Len(st2.spans) ELSE NoObject
    IN  Call(st2, r, fn, <<err, req, response, WrappedNext(span, next)>>)

\* a call f(...args) of a handler: a function of the user is entered (and
\* noted), a closure of wrap runs the body of its case
Call(st, r, f, args) ==
    IF f.fn = Undefined
    THEN Note(st, r, [op |-> "call", fn |-> f, args |-> args])
    ELSE CASE f.length = 2 -> Wrapped2(st, r, f.fn, args)
           [] f.length = 3 -> Wrapped3(st, r, f.fn, args)
           [] f.length = 4 -> Wrapped4(st, r, f.fn, args)

-----------------------------------------------------------------------------
(* Inputs *)

fnA == UserFn("fnA", 2)
fnB == UserFn("fnB", 3)
errorHandler == UserFn("errorHandler", 4)
tooFew == UserFn("tooFew", 1)
tooMany == UserFn("tooMany", 5)

\* the receiver of the registration calls
TheApp == [kind |-> "object", name |-> "app"]

\* options of new Express(options)
IntegrationSamples ==
    { [_app |-> FALSE, methodsGiven |-> FALSE, _methods |-> <<>>],
      [_app |-> TRUE,  methodsGiven |-> FALSE, _methods |-> <<>>],
      [_app |-> TRUE,  methodsGiven |-> TRUE,  _methods |-> <<"get">>],
      [_app |-> TRUE,  methodsGiven |-> TRUE,  _methods |-> <<"get", "post", "get">>] }

\* registration methods the application code calls
CalledMethods == {"use", "get", "put"}

\* argument lists of registration calls
RegistrationArgs ==
    { <<fnA>>,
      <<Str("/path"), fnB, errorHandler>>,
      <<Arr(<<fnA, Str("/path"), fnB>>)>>,
      <<Str("/path"), fnA, Arr(<<fnB, tooMany>>)>>,
      <<fnB, tooFew>>,
      <<Arr(<<Arr(<<tooFew>>), errorHandler>>)>> }

\* the registration calls of the application whose handlers serve requests
ServedMethods == {"get", "put"}

ServedArgs == { <<Str("/path"), fnA, Arr(<<fnB, errorHandler>>)>> }

\* the requests that arrive: the request object, and whether the tracing
\* middleware attached a transaction to the response
RequestSamples ==
    { [req |-> [method |-> "GET", route |-> [kind |-> "route", path |-> "/users/:id"],
                originalUrl |-> "/api/users/7?full=1", baseUrl |-> "/api",
                query |-> "full=1"],
       traced |-> t] : t \in BOOLEAN }
    \cup
    { [req |-> [method |-> "POST", route |-> Undefined,
                originalUrl |-> "/login", baseUrl |-> "",
                query |-> ""],
       traced |-> t] : t \in BOOLEAN }

\* the error the framework passes to an error handler
Err == [kind |-> "error", value |-> "boom"]

\* argument lists a handler calls its continuation with
NextArgs == { <<>>, <<Err>> }

\* name of a transaction before any handler ran
InitialName == "unnamed"

-----------------------------------------------------------------------------
(* The state machine *)

NoCall == [method |-> "", this |-> Undefined, args |-> <<>>, layers |-> 0,
           threw |-> FALSE, error |-> Undefined, forwarded |-> <<>>]

Init ==
    /\ app = [m \in AppMethods |-> OriginalMethod(m)]
    /\ integration \in IntegrationSamples
    /\ setups = 0
    /\ handlers = {}
    /\ regs = 0
    /\ lastCall = NoCall
    /\ requests = <<>>
    /\ res = <<>>
    /\ transactions = <<>>
    /\ spans = <<>>
    /\ invs = <<>>
    /\ running = 0
    /\ log = <<>>

\* the integration whose application serves the requests
ServedIntegration == [_app |-> TRUE, methodsGiven |-> TRUE, _methods |-> <<"get">>]

InitServing == Init /\ integration = ServedIntegration

RECURSIVE Sum(_, _)
Sum(f, n) == IF n = 0 THEN 0 ELSE f[n] + Sum(f, n - 1)

\* the calls and events so far
Steps ==
    setups + regs + Len(invs)
    + Sum([d \in 1..Len(invs) |->
              invs[d].nextCalls + IF invs[d].returned THEN 1 ELSE 0], Len(invs))
    + Sum([r \in 1..Len(res) |-> res[r].emits], Len(res))

Objects == [requests |-> requests, res |-> res, transactions |-> transactions,
            spans |-> spans, log |-> log]

SetObjects(st) ==
    /\ requests' = st.requests
    /\ res' = st.res
    /\ transactions' = st.transactions
    /\ spans' = st.spans
    /\ log' = st.log

\* Express.setupOnce
setupOnce ==
    /\ Steps < MaxSteps
    /\ setups < MaxSetup
    /\ running = 0
    /\ setups' = setups + 1
    /\ app' = IF ~integration._app
              THEN app
              ELSE routeMiddlewares(instrumentMiddlewares(app),
                                    IF integration.methodsGiven
                                    THEN integration._methods ELSE <<>>)
    /\ UNCHANGED <<integration, handlers, regs, lastCall, requests, res,
                   transactions, spans, invs, running, log>>

\* the functions a registration method of the framework finds in its
\* arguments (it flattens lists of any depth)
RECURSIVE FunctionsIn(_)
FunctionsIn(v) ==
    IF IsFunction(v) THEN {v}
    ELSE IF IsArray(v)
         THEN UNION {FunctionsIn(v.elems[i]) : i \in 1..Len(v.elems)}
         ELSE {}

\* the application calls app[method](...args)
Register(method, args) ==
    /\ Steps < MaxSteps
    /\ regs < MaxRegistrations
    /\ running = 0
    /\ regs' = regs + 1
    /\ LET out == CallMethod(app[method], TheApp, args) IN
       /\ lastCall' = [method |-> method, this |-> TheApp, args |-> args,
                       layers |-> Layers(app[method]),
                       threw |-> out.threw, error |-> out.error,
                       forwarded |-> out.forwarded]
       /\ handlers' = handlers \cup
              UNION {FunctionsIn(Arr(out.forwarded[i].args)) :
                         i \in 1..Len(out.forwarded)}
    /\ UNCHANGED <<app, integration, setups, requests, res, transactions, spans,
                   invs, running, log>>

\* the objects after a request arrived: the framework made its request and
\* response objects, and the tracing middleware may have attached a new
\* transaction to the response
WithRequest(st, sample) ==
    [st EXCEPT
       !.requests = Append(@, sample.req),
       !.transactions = IF sample.traced
                        THEN Append(@, [name |-> InitialName, data |-> <<>>])
                        ELSE @,
       !.res = Append(@, [__sentry_transaction |->
                              IF sample.traced THEN Len(st.transactions) + 1
                              ELSE NoObject,
                          listeners |-> <<>>, emits |-> 0]),
       !.log = Append(@, <<>>)]

\* the arguments the framework invokes a handler with
HostArgs(h, r) ==
    IF h.length = 4 THEN <<Err, Req(r), Res(r), HostNext(r)>>
    ELSE <<Req(r), Res(r), HostNext(r)>>

\* the framework invokes handler h for request r, with the objects being st
Dispatch(st, r, h) ==
    LET d == Len(invs) + 1
        args == HostArgs(h, r)
        st0 == Note(st, r, [op |-> "invoke", inv |-> d])
        st1 == Call(st0, r, h, args)
        new == (Len(st0.log[r]) + 1)..Len(st1.log[r])
        entered == {i \in new : st1.log[r][i].op = "call"}
    IN  /\ SetObjects(st1)
        /\ invs' = Append(invs,
               [req |-> r, handler |-> h, args |-> args,
                traced |-> st.res[r].__sentry_transaction # NoObject,
                first |-> Len(st0.log[r]), last |-> Len(st1.log[r]),
                received |-> IF entered = {} THEN <<>>
                             ELSE st1.log[r][CHOOSE i \in entered : TRUE].args,
                nextCalls |-> 0, returned |-> FALSE])
        /\ running' = d

\* a request arrives and the framework invokes the first handler for it
Arrive(sample, h) ==
    /\ Steps < MaxSteps
    /\ running = 0
    /\ h.length <= 4
    /\ Dispatch(WithRequest(Objects, sample), Len(requests) + 1, h)
    /\ UNCHANGED <<app, integration, setups, handlers, regs, lastCall>>

\* the framework invokes a further handler for request r
Invoke(r, h) ==
    /\ Steps < MaxSteps
    /\ running = 0
    /\ h.length <= 4
    /\ Dispatch(Objects, r, h)
    /\ UNCHANGED <<app, integration, setups, handlers, regs, lastCall>>

\* the continuation the user's handler was given, if any
Continuation(received) ==
    IF received # <<>> /\ IsFunction(received[Len(received)])
    THEN received[Len(received)] ELSE Undefined

\* the user's handler of invocation d calls its continuation: while it is on
\* the stack, or later from a callback
HandlerCallsNext(d, nargs) ==
    /\ Steps < MaxSteps
    /\ running \in {0, d}
    /\ running = 0 => invs[d].returned
    /\ Continuation(invs[d].received) # Undefined
    /\ LET r == invs[d].req
           st0 == Note(Objects, r, [op |-> "callNext", inv |-> d, args |-> nargs])
       IN  SetObjects(CallNext(st0, r, Continuation(invs[d].received), nargs))
    /\ invs' = [invs EXCEPT ![d].nextCalls = @ + 1]
    /\ UNCHANGED <<app, integration, setups, handlers, regs, lastCall, running>>

\* the user's handler of invocation d returns, and with it the closures around it
HandlerReturns(d) ==
    /\ Steps < MaxSteps
    /\ running = d
    /\ running' = 0
    /\ invs' = [invs EXCEPT ![d].returned = TRUE]
    /\ log' = [log EXCEPT ![invs[d].req] = Append(@, [op |-> "return", inv |-> d])]
    /\ UNCHANGED <<app, integration, setups, handlers, regs, lastCall, requests,
                   res, transactions, spans>>

\* the callbacks of the listeners, called in order of registration
RECURSIVE RunListeners(_, _, _)
RunListeners(st, r, ls) ==
    IF ls = <<>> THEN st
    ELSE RunListeners(finish(st, r, Head(ls).callback.span), r, Tail(ls))

\* response r emits 'finish': listeners added with once are removed, then called
ResponseFinish(r) ==
    /\ Steps < MaxSteps
    /\ running = 0
    /\ LET ls == SelectSeq(res[r].listeners, LAMBDA l : l.name = "finish")
           st0 == Note([Objects EXCEPT
                           !.res[r].listeners =
                               SelectSeq(@, LAMBDA l : l.name # "finish"),
                           !.res[r].emits = @ + 1],
                       r, [op |-> "emit"])
       IN  SetObjects(RunListeners(st0, r, ls))
    /\ UNCHANGED <<app, integration, setups, handlers, regs, lastCall, invs,
                   running>>

\* the application is set up and its handlers are registered
NextRegistration ==
    \/ setupOnce
    \/ \E m \in CalledMethods, args \in RegistrationArgs : Register(m, args)

SpecRegistration == Init /\ [][NextRegistration]_vars

\* the application is set up, registers handlers and serves requests
Next ==
    \/ setupOnce
    \/ \E m \in ServedMethods, args \in ServedArgs : Register(m, args)
    \/ \E sample \in RequestSamples, h \in handlers : Arrive(sample, h)
    \/ \E r \in 1..Len(requests), h \in handlers : Invoke(r, h)
    \/ \E d \in 1..Len(invs), nargs \in NextArgs : HandlerCallsNext(d, nargs)
    \/ \E d \in 1..Len(invs) : HandlerReturns(d)
    \/ \E r \in 1..Len(requests) : ResponseFinish(r)

Spec == InitServing /\ [][Next]_vars

-----------------------------------------------------------------------------
(* Reading the state *)

\* number of closures of wrap around a handler, and the function inside them
RECURSIVE Depth(_)
Depth(f) == IF f.fn = Undefined THEN 0 ELSE 1 + Depth(f.fn)

RECURSIVE Innermost(_)
Innermost(f) == IF f.fn = Undefined THEN f ELSE Innermost(f.fn)

Invocations == 1..Len(invs)

\* the log of the request of invocation d
LogOf(d) == log[invs[d].req]

\* the calls made between the framework's invocation d and the entry of the
\* user's function
Prologue(d) == (invs[d].first + 1)..invs[d].last

PrologueOps(d, ops) == {i \in Prologue(d) : LogOf(d)[i].op \in ops}

\* the spans opened by invocation d
SpansOf(d) == {LogOf(d)[i].span : i \in PrologueOps(d, {"startChild"})}

\* the entries of a log that note an act of the framework or of a user's
\* handler; the calls that act causes follow it, up to the next such entry
Markers == {"invoke", "callNext", "return", "emit"}

Segment(l, i) ==
    {j \in (i + 1)..Len(l) : \A k \in (i + 1)..j : l[k].op \notin Markers}

\* the continuation calls of invocation d, and the 'finish' events of its
\* response that came after the invocation
NextCallsOf(d) ==
    {i \in 1..Len(LogOf(d)) : LogOf(d)[i].op = "callNext" /\ LogOf(d)[i].inv = d}

EmitsAfter(d) ==
    {i \in (invs[d].last + 1)..Len(LogOf(d)) : LogOf(d)[i].op = "emit"}

TracingOps == {"name", "setData", "startChild", "finish", "once"}

Wrapped(d) == Depth(invs[d].handler) >= 1

Arity(d) == invs[d].handler.length

\* continuation c does nothing but hand the call on, down to continuation n
RECURSIVE ForwardsTo(_, _)
ForwardsTo(c, n) ==
    \/ c = n
    \/ /\ ~IsHostNext(c)
       /\ c.span = NoObject
       /\ ForwardsTo(c.next, n)

-----------------------------------------------------------------------------
(* C1 *)

\* in the calls caused by continuation call i of invocation d, every span of
\* d is finished once, and only then is the call handed to the framework's
\* continuation, once, with the arguments of the call
FinishThenForward(d, i) ==
    LET l == LogOf(d)
        seg == Segment(l, i)
        nexts == {j \in seg : l[j].op = "next"}
    IN  /\ Cardinality(nexts) = 1
        /\ \A j \in nexts : l[j].args = l[i].args
        /\ \A s \in SpansOf(d) :
              /\ Cardinality({j \in seg : l[j].op = "finish" /\ l[j].span = s}) = 1
              /\ \A j \in seg, n \in nexts :
                    l[j].op = "finish" /\ l[j].span = s => j < n

TracedArity3(d) == Wrapped(d) /\ Arity(d) = 3 /\ invs[d].traced

\* C1 as stated: for a wrapped handler of arity 3 invoked with a transaction
\* attached, finish is invoked before the wrapped continuation forwards
\* control, and exactly once per invocation of the wrapped handler, whatever
\* the original handler does with its continuation: once the continuation has
\* been called, however often, every span of the invocation was finished once.
C1_FinishExactlyOncePerInvocation ==
    \A d \in Invocations : TracedArity3(d) =>
        /\ \A i \in NextCallsOf(d) : FinishThenForward(d, i)
        /\ \A s \in SpansOf(d) :
              /\ spans[s].finished <= 1
              /\ invs[d].nextCalls >= 1 => spans[s].finished = 1

\* C1 amended: for a wrapped handler of arity 3 invoked with a transaction
\* attached, every call of the wrapped continuation invokes the span's
\* finish once and then forwards control to the original continuation; the
\* span is finished as many times as the original handler calls its
\* continuation, so exactly once when the handler calls it exactly once.
C1_FinishOncePerContinuationCall ==
    \A d \in Invocations : TracedArity3(d) =>
        /\ SpansOf(d) # {}
        /\ \A i \in NextCallsOf(d) : FinishThenForward(d, i)
        /\ \A s \in SpansOf(d) : spans[s].finished = invs[d].nextCalls

C1_Witness ==
    \E d \in Invocations :
        /\ TracedArity3(d)
        /\ invs[d].nextCalls = 1
        /\ \E s \in SpansOf(d) : spans[s].finished = 1
        /\ \E i \in 1..Len(LogOf(d)) : LogOf(d)[i].op = "next"

-----------------------------------------------------------------------------
(* C2 *)

Untraced(d) == Wrapped(d) /\ Arity(d) \in {2, 3, 4} /\ ~invs[d].traced

\* the user's function is entered once by invocation d, as the function
\* inside the closures
EnteredOnce(d) ==
    /\ Cardinality(PrologueOps(d, {"call"})) = 1
    /\ \A i \in PrologueOps(d, {"call"}) :
          LogOf(d)[i].fn = Innermost(invs[d].handler)

\* nothing is called on a span or a transaction, and no listener is added,
\* on behalf of the request of invocation d
NoTracing(d) == \A i \in 1..Len(LogOf(d)) : LogOf(d)[i].op \notin TracingOps

\* C2 as stated: with no transaction attached to the response, invoking a
\* wrapped handler of arity 2, 3 or 4 invokes the original handler exactly
\* once with unchanged arguments, and performs no span operation and no
\* transaction write.
C2_UnchangedArguments ==
    \A d \in Invocations : Untraced(d) =>
        /\ EnteredOnce(d)
        /\ invs[d].received = invs[d].args
        /\ NoTracing(d)

\* C2 amended: with no transaction attached to the response, invoking a
\* wrapped handler of arity 2, 3 or 4 invokes the original handler exactly
\* once and performs no span operation and no transaction write; the
\* request, response and error arguments are passed unchanged; for arity 2
\* the continuation is passed unchanged too, for arity 3 and 4 it is
\* replaced by a function that only forwards the call, with its arguments,
\* to the original continuation.
C2_UntracedPassThrough ==
    \A d \in Invocations : Untraced(d) =>
        LET got == invs[d].received
            given == invs[d].args
            n == Len(given)
        IN  /\ EnteredOnce(d)
            /\ NoTracing(d)
            /\ Len(got) = n
            /\ \A p \in 1..(n - 1) : got[p] = given[p]
            /\ Arity(d) = 2 => got[n] = given[n]
            /\ Arity(d) \in {3, 4} =>
                  got[n] # given[n] /\ ForwardsTo(got[n], given[n])
            /\ \A i \in NextCallsOf(d) :
                  LET seg == Segment(LogOf(d), i) IN
                  /\ Cardinality(seg) = 1
                  /\ \A j \in seg : /\ LogOf(d)[j].op = "next"
                                    /\ LogOf(d)[j].args = LogOf(d)[i].args

C2_Witness ==
    \E d \in Invocations :
        /\ Untraced(d) /\ Arity(d) = 3 /\ invs[d].nextCalls >= 1
        /\ invs[d].received[3] = WrappedNext(NoObject, HostNext(invs[d].req))

-----------------------------------------------------------------------------
(* C3 *)

Traced(d) == Wrapped(d) /\ invs[d].traced

TransactionOf(d) == res[invs[d].req].__sentry_transaction

RequestOf(d) == requests[invs[d].req]

\* the request of invocation d exposes the path of the route it matched
ExposesRoutePath(d) ==
    RequestOf(d).route # Undefined /\ RequestOf(d).route.path # ""

\* before the user's function is entered, invocation d sets `key` of the
\* data of its transaction to `value`
SetsBeforeCall(d, key, value) ==
    \E i \in PrologueOps(d, {"setData"}) :
        /\ LogOf(d)[i].transaction = TransactionOf(d)
        /\ LogOf(d)[i].key = key
        /\ LogOf(d)[i].value = value
        /\ \A c \in PrologueOps(d, {"call"}) : i < c

\* C3: when a wrapped handler is invoked with a transaction attached to the
\* response, the transaction is named "{METHOD} {route-path}" if the request
\* exposes a matched-route path and keeps its name otherwise, and its url,
\* baseUrl and query data are the request's originalUrl, baseUrl and query;
\* all of it is written before the original handler runs.
C3_RequestOnTransaction ==
    \A d \in Invocations : Traced(d) =>
        LET t == transactions[TransactionOf(d)]
            req == RequestOf(d)
        IN  /\ ExposesRoutePath(d) =>
                  /\ t.name = req.method \o " " \o req.route.path
                  /\ \E i \in PrologueOps(d, {"name"}) :
                        /\ LogOf(d)[i].value = t.name
                        /\ LogOf(d)[i].transaction = TransactionOf(d)
                        /\ \A c \in PrologueOps(d, {"call"}) : i < c
            /\ ~ExposesRoutePath(d) =>
                  /\ t.name = InitialName
                  /\ PrologueOps(d, {"name"}) = {}
            /\ DOMAIN t.data = {"url", "baseUrl", "query"}
            /\ t.data["url"] = req.originalUrl
            /\ t.data["baseUrl"] = req.baseUrl
            /\ t.data["query"] = req.query
            /\ SetsBeforeCall(d, "url", req.originalUrl)
            /\ SetsBeforeCall(d, "baseUrl", req.baseUrl)
            /\ SetsBeforeCall(d, "query", req.query)
            /\ PrologueOps(d, {"call"}) # {}

C3_Witness ==
    /\ \E d \in Invocations :
          /\ Traced(d) /\ Arity(d) = 2 /\ ExposesRoutePath(d)
          /\ transactions[TransactionOf(d)].name = "GET /users/:id"
          /\ transactions[TransactionOf(d)].data["url"] = "/api/users/7?full=1"
    /\ \E d \in Invocations :
          /\ Traced(d) /\ ~ExposesRoutePath(d)
          /\ transactions[TransactionOf(d)].data["url"] = "/login"

-----------------------------------------------------------------------------
(* C4 *)

TracedArity2(d) == Wrapped(d) /\ Arity(d) = 2 /\ invs[d].traced

\* C4: for a wrapped handler of arity 2 invoked with a transaction attached,
\* the span is opened before the original handler is invoked and is finished
\* exactly once, by the response's 'finish' event: it is still open when the
\* original handler has returned and no 'finish' event came, it is finished
\* once after the first such event, and a second event leaves it at once.
C4_FinishedByResponseEvent ==
    \A d \in Invocations : TracedArity2(d) =>
        /\ SpansOf(d) # {}
        /\ \A i \in PrologueOps(d, {"startChild"}), c \in PrologueOps(d, {"call"}) :
              i < c
        /\ \A s \in SpansOf(d) :
              spans[s].finished = IF EmitsAfter(d) = {} THEN 0 ELSE 1

C4_Witness ==
    \E d \in Invocations :
        /\ TracedArity2(d)
        /\ invs[d].returned
        /\ Cardinality(EmitsAfter(d)) = 2
        /\ \A s \in SpansOf(d) : spans[s].finished = 1

\* the span of an arity-2 handler is open after the handler returned
C4_WitnessOpenAfterReturn ==
    \E d \in Invocations :
        /\ TracedArity2(d)
        /\ invs[d].returned
        /\ \E s \in SpansOf(d) : spans[s].finished = 0

-----------------------------------------------------------------------------
(* C8 *)

\* C8: a span whose handler never signals completion is never finished: the
\* spans of a wrapped handler of arity 3 or 4 that has not called its
\* continuation are open, also after 'finish' events of the response; the
\* spans of a wrapped handler of arity 2 are open while the response has
\* emitted no 'finish' event.
C8_OpenWithoutSignal ==
    \A d \in Invocations : Traced(d) =>
        /\ SpansOf(d) # {}
        /\ Arity(d) \in {3, 4} /\ invs[d].nextCalls = 0 =>
              \A s \in SpansOf(d) : spans[s].finished = 0
        /\ Arity(d) = 2 /\ EmitsAfter(d) = {} =>
              \A s \in SpansOf(d) : spans[s].finished = 0

C8_Witness ==
    \E d \in Invocations :
        /\ Traced(d)
        /\ Arity(d) \in {3, 4}
        /\ invs[d].returned
        /\ invs[d].nextCalls = 0
        /\ EmitsAfter(d) # {}
        /\ \A s \in SpansOf(d) : spans[s].finished = 0

-----------------------------------------------------------------------------
(* C9 *)

Requests == 1..Len(requests)

\* the spans opened on behalf of request r
SpansOpenedFor(r) ==
    {log[r][i].span : i \in {j \in 1..Len(log[r]) : log[r][j].op = "startChild"}}

-----------------------------------------------------------------------------
(* C10 *)

\* the functions the last registration call handed to the framework
LastRegistered ==
    UNION {FunctionsIn(Arr(lastCall.forwarded[i].args)) :
               i \in 1..Len(lastCall.forwarded)}

\* every span of invocation d was finished by each completion signal of d:
\* each continuation call for arity 3 and 4, the first 'finish' event of the
\* response for arity 2
FinishedBySignals(d) ==
    \A s \in SpansOf(d) :
        /\ Arity(d) \in {3, 4} =>
              /\ spans[s].finished = invs[d].nextCalls
              /\ \A i \in NextCallsOf(d) :
                    \E j \in Segment(LogOf(d), i) :
                        LogOf(d)[j].op = "finish" /\ LogOf(d)[j].span = s
        /\ Arity(d) = 2 =>
              /\ spans[s].finished = IF EmitsAfter(d) = {} THEN 0 ELSE 1
              /\ EmitsAfter(d) # {} =>
                    \E i \in EmitsAfter(d) : \E j \in Segment(LogOf(d), i) :
                        LogOf(d)[j].op = "finish" /\ LogOf(d)[j].span = s

\* C10: patching is not idempotent.  Every setupOnce adds a layer to the
\* registration methods it patches, a handler registered through a method
\* with k layers is wrapped k times, and one invocation of it with a
\* transaction attached opens k spans, each finished by the same completion
\* signal: two spans for one middleware after setupOnce ran twice.
C10_DoubleWrap ==
    /\ Layers(app["use"]) = setups
    /\ Layers(app["get"]) = setups
    /\ \A h \in LastRegistered : Depth(h) = lastCall.layers
    /\ \A d \in Invocations : invs[d].traced =>
          /\ Cardinality(SpansOf(d)) = Depth(invs[d].handler)
          /\ FinishedBySignals(d)

C10_Witness ==
    /\ setups = 2
    /\ \E d \in Invocations :
          /\ invs[d].traced
          /\ Depth(invs[d].handler) = 2
          /\ Arity(d) = 3
          /\ invs[d].nextCalls = 1
          /\ Cardinality(SpansOf(d)) = 2
          /\ \A s \in SpansOf(d) : spans[s].finished = 1

-----------------------------------------------------------------------------
(* C5 *)

BadArity(v) == IsFunction(v) /\ v.length \notin {2, 3, 4}

\* a function of an arity other than 2, 3, 4 is among the arguments or
\* among the elements of an argument that is a list
HasBadArity(args) ==
    \E i \in 1..Len(args) :
        \/ BadArity(args[i])
        \/ /\ IsArray(args[i])
           /\ \E j \in 1..Len(args[i].elems) : BadArity(args[i].elems[j])

Called == lastCall.method # ""

\* C5: if a function passed to a patched registration method, at top level
\* or inside a list argument, has an arity outside {2,3,4}, the call throws
\* to its caller and the original registration method is never invoked, so
\* the call registers nothing, not even the valid handlers listed before
\* the invalid one.
C5_BadArityThrows ==
    Called /\ lastCall.layers >= 1 /\ HasBadArity(lastCall.args) =>
        /\ lastCall.threw
        /\ IsThrown(lastCall.error)
        /\ lastCall.forwarded = <<>>
        /\ LastRegistered = {}

C5_Witness ==
    /\ Called
    /\ lastCall.layers >= 1
    /\ lastCall.args = <<Str("/path"), fnA, Arr(<<fnB, tooMany>>)>>
    /\ lastCall.threw
    /\ lastCall.error = ArityError(5)
    /\ handlers = {}

-----------------------------------------------------------------------------
(* C6 *)

\* w is f inside k closures of wrap, each of the arity of f
RECURSIVE WrappedTimes(_, _, _)
WrappedTimes(w, f, k) ==
    IF k = 0 THEN w = f
    ELSE /\ IsFunction(w)
         /\ w.fn # Undefined
         /\ w.length = f.length
         /\ WrappedTimes(w.fn, f, k - 1)

\* argument b is argument a with its functions, and the functions among its
\* elements if it is a list, each wrapped k times and all else as it was
Substituted(b, a, k) ==
    IF IsFunction(a) THEN WrappedTimes(b, a, k)
    ELSE IF IsArray(a)
         THEN /\ IsArray(b)
              /\ Len(b.elems) = Len(a.elems)
              /\ \A j \in 1..Len(a.elems) :
                    IF IsFunction(a.elems[j])
                    THEN WrappedTimes(b.elems[j], a.elems[j], k)
                    ELSE b.elems[j] = a.elems[j]
         ELSE b = a

\* C6: a patched registration method that does not throw calls the original
\* method once, with the same receiver and with an argument list of the
\* same length and order in which every function argument and every
\* function element of a list argument is replaced by its own wrapper (one
\* wrapper per layer of patching) and every other argument or element is
\* passed unchanged at its position.
C6_SubstitutesFunctionsOnly ==
    Called /\ lastCall.layers >= 1 /\ ~lastCall.threw =>
        /\ Len(lastCall.forwarded) = 1
        /\ lastCall.forwarded[1].method = lastCall.method
        /\ lastCall.forwarded[1].this = lastCall.this
        /\ Len(lastCall.forwarded[1].args) = Len(lastCall.args)
        /\ \A i \in 1..Len(lastCall.args) :
              Substituted(lastCall.forwarded[1].args[i], lastCall.args[i],
                          lastCall.layers)

C6_Witness ==
    /\ Called
    /\ lastCall.layers = 1
    /\ lastCall.args = <<Arr(<<fnA, Str("/path"), fnB>>)>>
    /\ lastCall.forwarded =
          <<[method |-> lastCall.method, this |-> TheApp,
             args |-> <<Arr(<<Wrapper(fnA, 2), Str("/path"), Wrapper(fnB, 3)>>)>>]>>

-----------------------------------------------------------------------------
(* C7 *)

\* the methods the integration was configured with
Configured ==
    IF integration.methodsGiven
    THEN {integration._methods[i] : i \in 1..Len(integration._methods)}
    ELSE {}

Patched == {m \in AppMethods : app[m] # OriginalMethod(m)}

\* C7: after setupOnce with an application object, the patched registration
\* methods are exactly 'use' and the configured verb methods (none by
\* default); every other verb method keeps its original function, and a
\* call of it hands the handlers to the framework unwrapped.
C7_PatchedMethods ==
    /\ integration._app /\ setups >= 1 => Patched = {"use"} \cup Configured
    /\ ~(integration._app /\ setups >= 1) => Patched = {}
    /\ \A m \in AppMethods \ Patched : Layers(app[m]) = 0
    /\ \A m \in Patched : Layers(app[m]) >= 1
    /\ Called /\ lastCall.layers = 0 =>
          /\ ~lastCall.threw
          /\ lastCall.forwarded = <<[method |-> lastCall.method,
                                     this |-> lastCall.this,
                                     args |-> lastCall.args]>>
    /\ Called /\ lastCall.method \notin {"use"} \cup Configured =>
          lastCall.layers = 0

C7_Witness ==
    /\ integration._app
    /\ setups >= 1
    /\ Configured = {"get"}
    /\ Patched = {"use", "get"}
    /\ lastCall.method = "put"
    /\ lastCall.args = <<Str("/path"), fnB, errorHandler>>
    /\ handlers = {fnB, errorHandler}

\* by default no verb method is patched
C7_WitnessDefault ==
    /\ integration._app
    /\ ~integration.methodsGiven
    /\ setups >= 1
    /\ Patched = {"use"}
    /\ lastCall.method = "get"
    /\ fnA \in handlers

====
